---- MODULE Spec2Model ----
(***************************************************************************)
(* A model of client.py: the class ClientDatabase, which keeps clients and *)
(* their phones in two PostgreSQL tables through one psycopg2 connection.  *)
(*                                                                         *)
(* Text values (names, emails, phones, search keys) are sequences of       *)
(* Unicode code points, so that the two CHECK constraints and str.lower()  *)
(* are computed character by character.  A nullable value is <<>> (None /  *)
(* NULL) or <<v>>.  Every text used is shorter than the varchar(50) and    *)
(* varchar(100) of the columns, and every identifier passed is an integer. *)
(***************************************************************************)
EXTENDS Integers, Sequences, FiniteSets, Bags, TLC

VARIABLES
    client,               \* committed rows of table client
    client_phone,         \* committed rows of table client_phone
    client_id_seq,        \* last value of the sequence behind client.client_id
    client_phone_id_seq,  \* last value of the sequence behind client_phone_id
    status,               \* transaction status of self.conn between two calls
    returned_ids,         \* history: identifiers add_client has returned
    cascaded,             \* history: phone ids removed by del_client
    last                  \* the call that has just ended: its arguments, its
                          \* outcome and the state it started from

vars == <<client, client_phone, client_id_seq, client_phone_id_seq, status,
          returned_ids, cascaded, last>>

----------------------------------------------------------------------------
(* Bounds of the model. *)

\* add_client is not called once the client sequence has reached this value
MaxClientId == 2
\* no phone is inserted once the phone sequence has reached this value
MaxPhoneId == 2
\* longest phone_list handed to add_client
MaxPhoneList == 2

----------------------------------------------------------------------------
(* Text. *)

None == <<>>
Some(v) == <<v>>

\* "A", "B", "V", "P": first and last names
Txt_A == <<65>>
Txt_B == <<66>>
Txt_V == <<86>>
Txt_P == <<80>>
\* "a@b.ru"
Txt_GoodEmail == <<97, 64, 98, 46, 114, 117>>
\* "not-an-email"
Txt_BadEmail == <<110, 111, 116, 45, 97, 110, 45, 101, 109, 97, 105, 108>>
\* "555-1234"
Txt_Phone1 == <<53, 53, 53, 45, 49, 50, 51, 52>>
\* "+1(495)0"
Txt_Phone2 == <<43, 49, 40, 52, 57, 53, 41, 48>>
\* "bad phone!!"
Txt_BadPhone == <<98, 97, 100, 32, 112, 104, 111, 110, 101, 33, 33>>

\* the keys of fields_to_search: U+0438 U+043C U+044F, ..., "email", ...
Key_imya == <<1080, 1084, 1103>>
Key_familiya == <<1092, 1072, 1084, 1080, 1083, 1080, 1103>>
Key_email == <<101, 109, 97, 105, 108>>
Key_telefon == <<1090, 1077, 1083, 1077, 1092, 1086, 1085>>
\* the same keys with a capital first letter, and "EMAIL"
Txt_Familiya == <<1060, 1072, 1084, 1080, 1083, 1080, 1103>>
Txt_EMAIL == <<69, 77, 65, 73, 76>>
\* "name", "surname", "phone", "Phone", "x"
Txt_name == <<110, 97, 109, 101>>
Txt_surname == <<115, 117, 114, 110, 97, 109, 101>>
Txt_phone == <<112, 104, 111, 110, 101>>
Txt_Phone == <<80, 104, 111, 110, 101>>
Txt_x == <<120>>

\* str.lower() on one code point: A-Z, U+0410..U+042F and U+0400..U+040F
\* have a lowercase form; every other code point used here maps to itself
LowerChar(c) ==
    IF c \in 65..90 THEN c + 32
    ELSE IF c \in 1040..1071 THEN c + 32
    ELSE IF c \in 1024..1039 THEN c + 80
    ELSE c

\* A mutation of Lower: the search key is used as given.
LowerOmitted(s) == s

Lower(s) == [i \in 1..Len(s) |-> LowerChar(s[i])]

----------------------------------------------------------------------------
(* The two CHECK constraints. *)

IsDigit(c) == c \in 48..57
\* \w: letters, digits and the underscore
IsWord(c) == c \in 48..57 \/ c \in 65..90 \/ c \in 97..122 \/ c = 95
             \/ c \in 1024..1279
\* [\w\-\.]
IsEmailChar(c) == IsWord(c) \/ c = 45 \/ c = 46
\* \s
IsSpace(c) == c \in {32, 9, 10, 11, 12, 13}
\* [-\s\./\d]
IsPhoneTail(c) == c = 45 \/ IsSpace(c) \/ c = 46 \/ c = 47 \/ IsDigit(c)

\* email ~ '^[\w\-\.]+\@[\w\-\.]+\.[\w]+$': at is the index of the @, dot the
\* index of the dot before the last part
EmailMatches(s) ==
    \E at \in 2..Len(s), dot \in 4..Len(s) :
        /\ at + 1 < dot
        /\ dot < Len(s)
        /\ s[at] = 64
        /\ s[dot] = 46
        /\ \A i \in 1..(at - 1) : IsEmailChar(s[i])
        /\ \A i \in (at + 1)..(dot - 1) : IsEmailChar(s[i])
        /\ \A i \in (dot + 1)..Len(s) : IsWord(s[i])

\* positions reached from the positions P by one optional character c
Opt(s, P, c) == P \cup {p + 1 : p \in {q \in P : q < Len(s) /\ s[q + 1] = c}}
\* positions reached from the positions P by exactly one digit
OneDigit(s, P) == {p + 1 : p \in {q \in P : q < Len(s) /\ IsDigit(s[q + 1])}}

\* phone ~ '^[+]{0,1}\d{0,1}[(]{0,1}\d{1,4}[)]{0,1}[-\s\./\d]*$'; a position
\* is the number of characters matched so far
PhoneMatches(s) ==
    LET p1 == Opt(s, {0}, 43)
        p2 == p1 \cup OneDigit(s, p1)
        p3 == Opt(s, p2, 40)
        d1 == OneDigit(s, p3)
        d2 == OneDigit(s, d1)
        d3 == OneDigit(s, d2)
        d4 == OneDigit(s, d3)
        p5 == Opt(s, d1 \cup d2 \cup d3 \cup d4, 41)
    IN  \E p \in p5 : \A i \in (p + 1)..Len(s) : IsPhoneTail(s[i])

\* A mutation of email_regexp: the constraint is missing.
email_regexp_missing(email) == TRUE

\* constraint email_regexp: a NULL email passes
email_regexp(email) == email = None \/ EmailMatches(email[1])

\* constraint phone_regexp
phone_regexp(phone) == PhoneMatches(phone)

----------------------------------------------------------------------------
(* The connection: the tables as committed, the tables as the open         *)
(* transaction sees them, the two sequences (which no rollback restores),  *)
(* the transaction status, and what the call under way has produced.       *)

Tables(c, cp) == [client |-> c, client_phone |-> cp]

\* the connection as a call finds it
Session ==
    [db |-> Tables(client, client_phone),
     tx |-> Tables(client, client_phone),
     client_id_seq |-> client_id_seq,
     client_phone_id_seq |-> client_phone_id_seq,
     status |-> status,
     error |-> "none",
     result |-> None,
     printed |-> <<>>,
     rows |-> {},
     commits |-> <<>>]

\* self.conn.commit(): nothing is sent when no transaction is open; a failed
\* transaction is ended without keeping its changes
commit(s) ==
    IF s.status = "IDLE" THEN s
    ELSE IF s.status = "INERROR"
         THEN [s EXCEPT !.tx = s.db, !.status = "IDLE"]
         ELSE [s EXCEPT !.db = s.tx, !.status = "IDLE",
                        !.commits = Append(@, s.tx)]

\* self.conn.rollback()
rollback(s) == [s EXCEPT !.tx = s.db, !.status = "IDLE"]

\* every statement sent while the transaction is aborted is refused
Refused(s) == [s EXCEPT !.error = "InFailedSqlTransaction"]

\* a statement that fails aborts the open transaction
Failed(s, e) == [s EXCEPT !.status = "INERROR", !.error = e]

\* A mutation of references_client: the foreign key is missing.
references_client_missing(tx, client_id) == TRUE

\* client_id integer references client(client_id)
references_client(tx, client_id) ==
    \E c \in tx.client : c.client_id = client_id

\* A mutation of ExecInsertClient: a rejected row gives its identifier back.
ExecInsertClientIdRestored(s, first_name, last_name, email) ==
    IF s.status = "INERROR" THEN Refused(s)
    ELSE IF ~email_regexp(email) THEN Failed(s, "CheckViolation")
    ELSE LET id == s.client_id_seq + 1
         IN  [s EXCEPT !.client_id_seq = id,
                       !.status = "INTRANS",
                       !.result = Some(id),
                       !.tx.client = @ \cup
                           {[client_id |-> id, first_name |-> first_name,
                             last_name |-> last_name, email |-> email]}]

\* A mutation of ExecInsertClient: the identifier is one more than the
\* largest identifier in the table.
ExecInsertClientMaxPlusOne(s, first_name, last_name, email) ==
    IF s.status = "INERROR" THEN Refused(s)
    ELSE LET ids == {c.client_id : c \in s.tx.client} \cup {0}
             id == 1 + CHOOSE m \in ids : \A n \in ids : n <= m
             t == [s EXCEPT !.client_id_seq = IF id > @ THEN id ELSE @]
         IN  IF ~email_regexp(email) THEN Failed(t, "CheckViolation")
             ELSE [t EXCEPT !.status = "INTRANS",
                            !.result = Some(id),
                            !.tx.client = @ \cup
                                {[client_id |-> id, first_name |-> first_name,
                                  last_name |-> last_name, email |-> email]}]

\* INSERT INTO client ... RETURNING client_id, then cur.fetchone()[0].  The
\* SERIAL default takes the next value of the sequence before the CHECK
\* constraint is evaluated.
ExecInsertClient(s, first_name, last_name, email) ==
    IF s.status = "INERROR" THEN Refused(s)
    ELSE LET id == s.client_id_seq + 1
             t == [s EXCEPT !.client_id_seq = id]
         IN  IF ~email_regexp(email) THEN Failed(t, "CheckViolation")
             ELSE [t EXCEPT !.status = "INTRANS",
                            !.result = Some(id),
                            !.tx.client = @ \cup
                                {[client_id |-> id, first_name |-> first_name,
                                  last_name |-> last_name, email |-> email]}]

\* INSERT INTO client_phone: the CHECK constraint is evaluated on the new
\* row, the foreign key after the row is in the table.
ExecInsertPhone(s, client_id, phone) ==
    IF s.status = "INERROR" THEN Refused(s)
    ELSE LET id == s.client_phone_id_seq + 1
             t == [s EXCEPT !.client_phone_id_seq = id]
         IN  IF ~phone_regexp(phone) THEN Failed(t, "CheckViolation")
             ELSE IF ~references_client(t.tx, client_id)
                  THEN Failed(t, "ForeignKeyViolation")
             ELSE [t EXCEPT !.status = "INTRANS",
                            !.tx.client_phone = @ \cup
                                {[client_phone_id |-> id,
                                  client_id |-> client_id, phone |-> phone]}]

\* A mutation of ExecUpdateClient: the WHERE clause is missing.
ExecUpdateClientEveryRow(s, client_id, first_name, last_name, email) ==
    IF s.status = "INERROR" THEN Refused(s)
    ELSE IF s.tx.client = {} THEN [s EXCEPT !.status = "INTRANS"]
    ELSE IF ~email_regexp(email) THEN Failed(s, "CheckViolation")
    ELSE [s EXCEPT !.status = "INTRANS",
                   !.tx.client =
                       {[c EXCEPT !.first_name = first_name,
                                  !.last_name = last_name,
                                  !.email = email] : c \in @}]

\* UPDATE client SET ... WHERE client_id = ...: the CHECK constraint is
\* evaluated on each row that is updated
ExecUpdateClient(s, client_id, first_name, last_name, email) ==
    IF s.status = "INERROR" THEN Refused(s)
    ELSE IF \A c \in s.tx.client : c.client_id # client_id
         THEN [s EXCEPT !.status = "INTRANS"]
    ELSE IF ~email_regexp(email) THEN Failed(s, "CheckViolation")
    ELSE [s EXCEPT !.status = "INTRANS",
                   !.tx.client =
                       {IF c.client_id = client_id
                        THEN [c EXCEPT !.first_name = first_name,
                                       !.last_name = last_name,
                                       !.email = email]
                        ELSE c : c \in @}]

\* DELETE FROM client_phone WHERE client_phone_id = ...
ExecDeletePhone(s, phone_id) ==
    IF s.status = "INERROR" THEN Refused(s)
    ELSE [s EXCEPT !.status = "INTRANS",
                   !.tx.client_phone =
                       {p \in @ : p.client_phone_id # phone_id}]

\* DELETE FROM client_phone WHERE client_id = ...
ExecDeletePhonesOf(s, client_id) ==
    IF s.status = "INERROR" THEN Refused(s)
    ELSE [s EXCEPT !.status = "INTRANS",
                   !.tx.client_phone = {p \in @ : p.client_id # client_id}]

\* DELETE FROM client WHERE client_id = ...: refused while a phone row
\* references the client
ExecDeleteClient(s, client_id) ==
    IF s.status = "INERROR" THEN Refused(s)
    ELSE IF \E p \in s.tx.client_phone : p.client_id = client_id
         THEN Failed(s, "ForeignKeyViolation")
    ELSE [s EXCEPT !.status = "INTRANS",
                   !.tx.client = {c \in @ : c.client_id # client_id}]

----------------------------------------------------------------------------
(* The two queries. *)

\* client c LEFT JOIN client_phone cp ON c.client_id = cp.client_id: a client
\* without phones gives one row whose cp columns are NULL
LeftJoin(t) ==
    UNION {
        LET ps == {p \in t.client_phone : p.client_id = c.client_id}
        IN  IF ps = {} THEN {[c |-> c, cp |-> None]}
            ELSE {[c |-> c, cp |-> Some(p)] : p \in ps}
        : c \in t.client}

\* the value of a column of a joined row, NULL included
Column(j, name) ==
    CASE name = "first_name" -> Some(j.c.first_name)
      [] name = "last_name" -> Some(j.c.last_name)
      [] name = "email" -> j.c.email
      [] name = "phone" -> IF j.cp = None THEN None ELSE Some(j.cp[1].phone)

\* A mutation of Distinct: SELECT without DISTINCT.
DistinctOmitted(rows) == rows

\* SELECT DISTINCT: rows is a bag of rows, each kept once
Distinct(rows) == SetToBag(BagToSet(rows))

\* SELECT c.client_id, c.first_name, c.last_name, c.email FROM ... WHERE
\* <column> = value, before DISTINCT: a bag, one copy per joined row
SelectWhere(t, column, value) ==
    LET hit == {j \in LeftJoin(t) : Column(j, column) = Some(value)}
    IN  [c \in {j.c : j \in hit} |-> Cardinality({j \in hit : j.c = c})]

ExecFind(s, column, value) ==
    IF s.status = "INERROR" THEN Refused(s)
    ELSE [s EXCEPT !.status = "INTRANS",
                   !.result = Some(Distinct(SelectWhere(s.tx, column, value)))]

\* the orders in which the elements of S can be enumerated
Orderings(S) ==
    {f \in [1..Cardinality(S) -> S] :
        \A i, j \in 1..Cardinality(S) : f[i] = f[j] => i = j}

RECURSIVE JoinText(_, _)
\* sep.join(texts)
JoinText(texts, sep) ==
    IF texts = <<>> THEN <<>>
    ELSE IF Len(texts) = 1 THEN texts[1]
    ELSE texts[1] \o sep \o JoinText(Tail(texts), sep)

\* string_agg(cp.phone, ', ') over the joined rows of one client: NULL when
\* no row has a phone; ord is the order in which the rows are aggregated,
\* which the query leaves open
StringAgg(group, ord) ==
    LET has(p) == \E j \in group : j.cp = Some(p)
        ps == SelectSeq(ord, has)
    IN  IF ps = <<>> THEN None
        ELSE Some(JoinText([k \in 1..Len(ps) |-> ps[k].phone], <<44, 32>>))

\* SELECT ..., string_agg(cp.phone, ', ') phones FROM ... GROUP BY c.client_id,
\* c.first_name, c.last_name, c.email
SelectAll(t, ord) ==
    {[client_id |-> c.client_id, first_name |-> c.first_name,
      last_name |-> c.last_name, email |-> c.email,
      phones |-> StringAgg({j \in LeftJoin(t) : j.c = c}, ord)]
     : c \in {j.c : j \in LeftJoin(t)}}

ExecSelectAll(s, ord) ==
    IF s.status = "INERROR" THEN Refused(s)
    ELSE [s EXCEPT !.status = "INTRANS", !.rows = SelectAll(s.tx, ord)]

----------------------------------------------------------------------------
(* The methods of ClientDatabase, each from the connection as it finds it  *)
(* to the connection as it leaves it.  error is the exception that leaves  *)
(* the method, "none" when it returns.                                     *)

\* the search keys and the columns they stand for
fields_to_search ==
    (Key_imya :> "first_name") @@ (Key_familiya :> "last_name")
    @@ (Key_email :> "email") @@ (Key_telefon :> "phone")

\* _insert_client_phone
insert_client_phone(s, client_id, phone) ==
    LET r == ExecInsertPhone(s, client_id, phone)
    IN  IF r.error = "CheckViolation"
        THEN rollback([r EXCEPT !.error = "none",
                                !.printed = Append(@, "bad phone")])
        ELSE r

RECURSIVE insert_phone_list(_, _, _)
\* for phone in phone_list: self._insert_client_phone(cur, new_client_id, phone)
insert_phone_list(s, client_id, phone_list) ==
    IF phone_list = <<>> \/ s.error # "none" THEN s
    ELSE insert_phone_list(insert_client_phone(s, client_id, Head(phone_list)),
                           client_id, Tail(phone_list))

\* A mutation of run_add_client: the client row is committed only with the
\* phones, at the end.
run_add_client_one_commit(s, first_name, last_name, email, phone_list) ==
    LET r == ExecInsertClient(s, first_name, last_name, email)
    IN  IF r.error = "CheckViolation"
        THEN rollback([r EXCEPT !.error = "none", !.result = None,
                                !.printed = Append(@, "bad email")])
        ELSE IF r.error # "none" THEN r
        ELSE LET p == insert_phone_list(r, r.result[1],
                          IF phone_list = None THEN <<>> ELSE phone_list[1])
             IN  IF p.error # "none" THEN [p EXCEPT !.result = None]
                 ELSE [commit(p) EXCEPT !.result = r.result]

\* add_client
run_add_client(s, first_name, last_name, email, phone_list) ==
    LET r == ExecInsertClient(s, first_name, last_name, email)
    IN  IF r.error = "CheckViolation"
        THEN rollback([r EXCEPT !.error = "none", !.result = None,
                                !.printed = Append(@, "bad email")])
        ELSE IF r.error # "none" THEN r
        ELSE LET c == commit(r)
             IN  IF phone_list = None THEN c
                 ELSE LET p == insert_phone_list(c, c.result[1], phone_list[1])
                      IN  IF p.error # "none" THEN [p EXCEPT !.result = None]
                          ELSE commit(p)

\* add_client_phone
run_add_client_phone(s, client_id, phone) ==
    LET r == insert_client_phone(s, client_id, phone)
    IN  IF r.error # "none" THEN r ELSE commit(r)

\* update_client
run_update_client(s, client_id, new_first_name, new_last_name, new_email) ==
    LET r == ExecUpdateClient(s, client_id, new_first_name, new_last_name,
                              new_email)
    IN  IF r.error # "none" THEN r ELSE commit(r)

\* del_client_phone
run_del_client_phone(s, phone_id) ==
    LET r == ExecDeletePhone(s, phone_id)
    IN  IF r.error # "none" THEN r ELSE commit(r)

\* A mutation of run_del_client: the client row is not deleted.
run_del_client_phones_only(s, client_id) ==
    LET r == ExecDeletePhonesOf(s, client_id)
    IN  IF r.error # "none" THEN r ELSE commit(r)

\* del_client
run_del_client(s, client_id) ==
    LET r == ExecDeletePhonesOf(s, client_id)
    IN  IF r.error # "none" THEN r
        ELSE LET d == ExecDeleteClient(r, client_id)
             IN  IF d.error # "none" THEN d ELSE commit(d)

\* find_client
run_find_client(s, field_name, field_value) ==
    LET key == Lower(field_name)
    IN  IF key \notin DOMAIN fields_to_search
        THEN [s EXCEPT !.printed = Append(@, "bad field")]
        ELSE ExecFind(s, fields_to_search[key], field_value)

\* print_all_clients
run_print_all_clients(s, ord) == ExecSelectAll(s, ord)

----------------------------------------------------------------------------
(* The calls a program makes on one ClientDatabase, one after the other.   *)

\* first_name and last_name of the clients added, and of the replacement
Persons == {<<Txt_A, Txt_B>>}
NewPersons == {<<Txt_V, Txt_P>>}
Emails == {Some(Txt_GoodEmail), Some(Txt_BadEmail)}
NewEmails == {None, Some(Txt_BadEmail)}
Phones == {Txt_Phone1, Txt_Phone2, Txt_BadPhone}
RECURSIVE SeqsUpTo(_, _)
SeqsUpTo(S, n) ==
    IF n = 0 THEN {<<>>}
    ELSE LET shorter == SeqsUpTo(S, n - 1)
         IN  shorter \cup {Append(q, x) : q \in shorter, x \in S}
PhoneLists == {None} \cup {Some(l) : l \in SeqsUpTo(Phones, MaxPhoneList)}
\* the searches made: a field_name and a field_value
Searches ==
    {<<Key_imya, Txt_A>>, <<Txt_Familiya, Txt_P>>,
     <<Txt_EMAIL, Txt_GoodEmail>>, <<Key_telefon, Txt_Phone1>>,
     <<Txt_name, Txt_A>>, <<Txt_surname, Txt_P>>,
     <<Txt_Phone, Txt_Phone1>>, <<Txt_x, Txt_A>>}
\* identifiers a caller passes: those handed out so far and one beyond
ClientIds == 1..(client_id_seq + 1)
PhoneIds == 1..(client_phone_id_seq + 1)

NoCall == [op |-> "none"]

\* the record of a call: the connection before it (pre) and after it (post)
Call(op, args, pre, post) ==
    [op |-> op, args |-> args,
     pre |-> [client |-> pre.db.client, client_phone |-> pre.db.client_phone,
              client_id_seq |-> pre.client_id_seq, status |-> pre.status,
              returned_ids |-> returned_ids],
     result |-> post.result,
     error |-> post.error, printed |-> post.printed, rows |-> post.rows,
     commits |-> post.commits]

\* the connection is left as the method left it
Leave(post) ==
    /\ client' = post.db.client
    /\ client_phone' = post.db.client_phone
    /\ client_id_seq' = post.client_id_seq
    /\ client_phone_id_seq' = post.client_phone_id_seq
    /\ status' = post.status

Init ==
    /\ client = {}
    /\ client_phone = {}
    /\ client_id_seq = 0
    /\ client_phone_id_seq = 0
    /\ status = "IDLE"
    /\ returned_ids = {}
    /\ cascaded = {}
    /\ last = NoCall

add_client(first_name, last_name, email, phone_list) ==
    /\ last = NoCall
    /\ client_id_seq < MaxClientId
    /\ client_phone_id_seq
         + (IF phone_list = None THEN 0 ELSE Len(phone_list[1])) <= MaxPhoneId
    /\ LET post == run_add_client(Session, first_name, last_name, email,
                                  phone_list)
       IN  /\ Leave(post)
           /\ returned_ids' = returned_ids \cup
                  (IF post.result = None THEN {} ELSE {post.result[1]})
           /\ last' = Call("add_client",
                           [first_name |-> first_name, last_name |-> last_name,
                            email |-> email, phone_list |-> phone_list],
                           Session, post)
    /\ UNCHANGED cascaded

add_client_phone(client_id, phone) ==
    /\ last = NoCall
    /\ client_phone_id_seq < MaxPhoneId
    /\ LET post == run_add_client_phone(Session, client_id, phone)
       IN  /\ Leave(post)
           /\ last' = Call("add_client_phone",
                           [client_id |-> client_id, phone |-> phone],
                           Session, post)
    /\ UNCHANGED <<returned_ids, cascaded>>

update_client(client_id, new_first_name, new_last_name, new_email) ==
    /\ last = NoCall
    /\ LET post == run_update_client(Session, client_id, new_first_name,
                                     new_last_name, new_email)
       IN  /\ Leave(post)
           /\ last' = Call("update_client",
                           [client_id |-> client_id,
                            first_name |-> new_first_name,
                            last_name |-> new_last_name, email |-> new_email],
                           Session, post)
    /\ UNCHANGED <<returned_ids, cascaded>>

del_client_phone(phone_id) ==
    /\ last = NoCall
    /\ LET post == run_del_client_phone(Session, phone_id)
       IN  /\ Leave(post)
           /\ last' = Call("del_client_phone", [phone_id |-> phone_id],
                           Session, post)
    /\ UNCHANGED <<returned_ids, cascaded>>

del_client(client_id) ==
    /\ last = NoCall
    /\ LET post == run_del_client(Session, client_id)
       IN  /\ Leave(post)
           /\ cascaded' = cascaded \cup
                  (IF post.error # "none" THEN {}
                   ELSE {p.client_phone_id :
                            p \in {q \in client_phone :
                                      q.client_id = client_id}})
           /\ last' = Call("del_client", [client_id |-> client_id],
                           Session, post)
    /\ UNCHANGED returned_ids

find_client(field_name, field_value) ==
    /\ last = NoCall
    /\ LET post == run_find_client(Session, field_name, field_value)
       IN  /\ Leave(post)
           /\ last' = Call("find_client",
                           [field_name |-> field_name,
                            field_value |-> field_value],
                           Session, post)
    /\ UNCHANGED <<returned_ids, cascaded>>

print_all_clients(ord) ==
    /\ last = NoCall
    /\ LET post == run_print_all_clients(Session, ord)
       IN  /\ Leave(post)
           /\ last' = Call("print_all_clients", [ord |-> ord], Session, post)
    /\ UNCHANGED <<returned_ids, cascaded>>

\* The method has returned and the caller goes on to its next call.  No call
\* is made from inside a try statement, so an exception that leaves a method
\* ends the program: the state the failed call leaves has no successor.
Return ==
    /\ last # NoCall
    /\ last.error = "none"
    /\ last' = NoCall
    /\ UNCHANGED <<client, client_phone, client_id_seq, client_phone_id_seq,
                   status, returned_ids, cascaded>>

Next ==
    \/ \E n \in Persons, e \in Emails, l \in PhoneLists :
           add_client(n[1], n[2], e, l)
    \/ \E c \in ClientIds, p \in Phones : add_client_phone(c, p)
    \/ \E c \in ClientIds, n \in NewPersons, e \in NewEmails :
           update_client(c, n[1], n[2], e)
    \/ \E p \in PhoneIds : del_client_phone(p)
    \/ \E c \in ClientIds : del_client(c)
    \/ \E q \in Searches : find_client(q[1], q[2])
    \/ \E ord \in Orderings(client_phone) : print_all_clients(ord)
    \/ Return

Spec == Init /\ [][Next]_vars

----------------------------------------------------------------------------
(* Properties.  Each is about the call that has just ended (last) and the  *)
(* committed tables it leaves.                                             *)

Returned(op) == last.op = op /\ last.error = "none"
ClientIdsOf(rows) == {c.client_id : c \in rows}
PhoneIdsOf(rows) == {p.client_phone_id : p \in rows}
PhonesOf(rows, client_id) == {p \in rows : p.client_id = client_id}
TablesUnchanged ==
    client = last.pre.client /\ client_phone = last.pre.client_phone

\* a is key up to the case of its letters (key in lowercase a-z or
\* U+0430..U+044F, whose capitals lie 32 below)
CaseVariant(a, key) ==
    /\ Len(a) = Len(key)
    /\ \A i \in 1..Len(key) : a[i] = key[i] \/ a[i] = key[i] - 32

\* the phones of the list that satisfy the format, as many times as listed
ValidCount(phone_list, v) ==
    IF PhoneMatches(v)
    THEN Cardinality({i \in 1..Len(phone_list) : phone_list[i] = v})
    ELSE 0

\* C1: when add_client is given an email that passes and a phone list, then
\* after it returns the new client is committed and the phones committed
\* for it are exactly the valid phones of the list; an invalid phone costs
\* neither the client nor a valid phone inserted before it.
C1_AddClientKeepsEveryValidPhone ==
    (Returned("add_client") /\ last.result # None
        /\ last.args.phone_list # None) =>
        LET id == last.result[1]
            mine == PhonesOf(client_phone, id)
        IN  /\ id \in ClientIdsOf(client)
            /\ \A v \in Phones :
                   Cardinality({p \in mine : p.phone = v})
                       = ValidCount(last.args.phone_list[1], v)

\* C2: an add_client whose email is not NULL and fails the format is rolled
\* back, returns no identifier, inserts none of its phones and leaves the
\* committed tables as they were.
C2_RejectedEmailChangesNothing ==
    (last.op = "add_client" /\ last.args.email # None
        /\ ~EmailMatches(last.args.email[1])) =>
        /\ last.error = "none"
        /\ last.result = None
        /\ last.printed = <<"bad email">>
        /\ last.commits = <<>>
        /\ status = "IDLE"
        /\ TablesUnchanged

C2_Witness ==
    /\ Returned("add_client")
    /\ last.args.email = Some(Txt_BadEmail)
    /\ last.args.phone_list = Some(<<Txt_Phone1, Txt_BadPhone>>)
    /\ last.pre.client # {}

\* C3: after del_client(id) returns, the committed tables hold neither the
\* client id nor a phone of it and the listing has no row for it; a later
\* del_client_phone on a phone that belonged to a deleted client changes
\* nothing and raises nothing.
C3_DeleteClientCascades ==
    /\ Returned("del_client") =>
           /\ last.args.client_id \notin ClientIdsOf(client)
           /\ PhonesOf(client_phone, last.args.client_id) = {}
           /\ \A ord \in Orderings(client_phone) :
                  \A r \in SelectAll(Tables(client, client_phone), ord) :
                      r.client_id # last.args.client_id
    /\ (last.op = "del_client_phone" /\ last.args.phone_id \in cascaded) =>
           /\ last.error = "none"
           /\ TablesUnchanged

C3_Witness ==
    /\ Returned("del_client_phone")
    /\ last.args.phone_id \in cascaded
    /\ client_phone # {}

\* C4: in every committed state every phone row references a client row
\* that exists.
C4_NoOrphanPhone ==
    \A p \in client_phone : p.client_id \in ClientIdsOf(client)

C4_Witness ==
    /\ Returned("del_client")
    /\ PhonesOf(last.pre.client_phone, last.args.client_id) # {}
    /\ client_phone # {}

\* C5: find_client on the phone key with value v returns exactly the
\* clients that have a phone row equal to v, each once.
C5_FindByPhone ==
    (Returned("find_client")
        /\ CaseVariant(last.args.field_name, Key_telefon)) =>
        LET owners == {c \in last.pre.client :
                          \E p \in PhonesOf(last.pre.client_phone, c.client_id) :
                              p.phone = last.args.field_value}
        IN  /\ last.result # None
            /\ DOMAIN last.result[1] = owners
            /\ \A c \in owners : last.result[1][c] = 1

C5_Witness ==
    /\ Returned("find_client")
    /\ last.args.field_name = Key_telefon
    /\ \E c \in client :
           Cardinality({p \in PhonesOf(client_phone, c.client_id) :
                           p.phone = last.args.field_value}) = 2
    /\ \E c \in client : c \notin DOMAIN last.result[1]

\* what find_client does with a field_name it does not recognize
Rejected ==
    /\ last.error = "none"
    /\ last.printed = <<"bad field">>
    /\ last.result = None
    /\ status = last.pre.status
    /\ TablesUnchanged

\* the clients whose column equals the value searched for
Matching(column) ==
    {c \in last.pre.client :
        CASE column = "first_name" -> c.first_name = last.args.field_value
          [] column = "last_name" -> c.last_name = last.args.field_value
          [] column = "email" -> c.email = Some(last.args.field_value)
          [] column = "phone" ->
                \E p \in PhonesOf(last.pre.client_phone, c.client_id) :
                    p.phone = last.args.field_value}

\* a search that is accepted runs the query on the given column
SearchedOn(column) ==
    /\ last.error = "none"
    /\ last.printed = <<>>
    /\ last.result # None
    /\ DOMAIN last.result[1] = Matching(column)

\* C6 as stated: find_client accepts a field_name exactly when it is, up to
\* case, one of "name", "surname", "email", "phone", and rejects every other
\* one without a query or a change.
C6_EnglishKeysRecognized ==
    last.op = "find_client" =>
        LET f == last.args.field_name
        IN  CASE CaseVariant(f, Txt_name) -> SearchedOn("first_name")
              [] CaseVariant(f, Txt_surname) -> SearchedOn("last_name")
              [] CaseVariant(f, Key_email) -> SearchedOn("email")
              [] CaseVariant(f, Txt_phone) -> SearchedOn("phone")
              [] OTHER -> Rejected

\* C6 as amended: the keys recognized are those of fields_to_search, U+0438
\* U+043C U+044F for first_name, U+0444 ... U+044F for last_name, "email"
\* for email and U+0442 ... U+043D for phone, up to case; every other
\* field_name, "name", "surname" and "phone" among them, is rejected
\* without a query or a change.
C6_RussianKeysRecognized ==
    last.op = "find_client" =>
        LET f == last.args.field_name
        IN  CASE CaseVariant(f, Key_imya) -> SearchedOn("first_name")
              [] CaseVariant(f, Key_familiya) -> SearchedOn("last_name")
              [] CaseVariant(f, Key_email) -> SearchedOn("email")
              [] CaseVariant(f, Key_telefon) -> SearchedOn("phone")
              [] OTHER -> Rejected

C6_Witness ==
    /\ Returned("find_client")
    /\ last.args.field_name = Txt_Familiya
    /\ last.result # None
    /\ DOMAIN last.result[1] # {}
    /\ DOMAIN last.result[1] # client

\* C7: an add_client without phones that succeeds returns an identifier no
\* earlier add_client has returned, and the listing then has exactly one
\* row with it, whose phones are NULL; every listing printed has each
\* client exactly once.
C7_FreshIdListedOnce ==
    /\ (Returned("add_client") /\ last.result # None
            /\ last.args.phone_list \in {None, Some(<<>>)}) =>
           /\ last.result[1] \notin last.pre.returned_ids
           /\ \A ord \in Orderings(client_phone) :
                  LET rows == SelectAll(Tables(client, client_phone), ord)
                      mine == {r \in rows : r.client_id = last.result[1]}
                  IN  /\ Cardinality(mine) = 1
                      /\ \A r \in mine : r.phones = None
    /\ Returned("print_all_clients") =>
           /\ ClientIdsOf(last.rows) = ClientIdsOf(client)
           /\ \A c \in client :
                  Cardinality({r \in last.rows : r.client_id = c.client_id}) = 1

C7_Witness ==
    /\ Returned("add_client")
    /\ last.result # None
    /\ last.args.phone_list = None
    /\ \E id \in last.pre.returned_ids : id \notin ClientIdsOf(last.pre.client)

\* C8: update_client on a client id that does not exist and del_client_phone
\* on a phone id that does not exist change no row and raise nothing;
\* update_client on an existing id changes the three fields of that client
\* and no other row.
C8_AbsentIdsChangeNothing ==
    /\ (last.op = "update_client"
            /\ last.args.client_id \notin ClientIdsOf(last.pre.client)) =>
           last.error = "none" /\ TablesUnchanged
    /\ (last.op = "del_client_phone"
            /\ last.args.phone_id \notin PhoneIdsOf(last.pre.client_phone)) =>
           last.error = "none" /\ TablesUnchanged
    /\ (last.op = "update_client"
            /\ last.args.client_id \in ClientIdsOf(last.pre.client)) =>
           /\ client_phone = last.pre.client_phone
           /\ {c \in client : c.client_id # last.args.client_id}
                = {c \in last.pre.client : c.client_id # last.args.client_id}
           /\ ClientIdsOf(client) = ClientIdsOf(last.pre.client)
           /\ last.error = "none" =>
                  [client_id |-> last.args.client_id,
                   first_name |-> last.args.first_name,
                   last_name |-> last.args.last_name,
                   email |-> last.args.email] \in client

C8_Witness ==
    /\ Returned("update_client")
    /\ last.args.client_id \notin ClientIdsOf(last.pre.client)
    /\ last.args.email = Some(Txt_BadEmail)
    /\ last.pre.client # {}
    /\ last.pre.client_phone # {}

\* the add_client that has just ended had its email rejected
EmailRejected ==
    last.op = "add_client" /\ last.printed = <<"bad email">>

\* C9 as stated: an add_client whose email is rejected consumes no client
\* identifier.
C9_RejectedAddKeepsSequence ==
    EmailRejected => client_id_seq = last.pre.client_id_seq

\* C9 as amended: an add_client whose email is rejected creates no row but
\* consumes one identifier, and a successful add_client returns the
\* identifier after the last one consumed; so the identifier of the next
\* successful add_client is one more than it would have been.
C9_RejectedAddConsumesOneId ==
    /\ EmailRejected =>
           /\ client_id_seq = last.pre.client_id_seq + 1
           /\ client_id_seq \notin ClientIdsOf(client)
           /\ client = last.pre.client
    /\ (Returned("add_client") /\ last.result # None) =>
           /\ last.result[1] = last.pre.client_id_seq + 1
           /\ client_id_seq = last.result[1]

C9_Witness ==
    /\ Returned("add_client")
    /\ last.result # None
    /\ last.result[1] > 1
    /\ last.result[1] - 1 \notin last.pre.returned_ids

\* the number of phones add_client has left for the client it returns
KeptPhones ==
    Cardinality(PhonesOf(client_phone, last.result[1]))

\* C10 as stated: each call commits once, at its end: no state committed
\* during add_client has the client without the phones the call leaves it,
\* and del_client commits its deletions together.
C10_OneCommitPerCall ==
    /\ (Returned("add_client") /\ last.result # None) =>
           /\ Len(last.commits) = 1
           /\ \A k \in 1..Len(last.commits) :
                  PhonesOf(last.commits[k].client_phone, last.result[1])
                      = PhonesOf(client_phone, last.result[1])
    /\ Returned("del_client") =>
           /\ Len(last.commits) = 1
           /\ last.commits[1] = Tables(client, client_phone)

\* C10 as amended: add_client commits the client row by itself before it
\* processes a phone, and commits the phones that are left in a second
\* commit at the end of the phone list, so that the client is committed
\* without its phones first; del_client commits the deletion of the phones
\* and of the client together, in one commit.
C10_ClientCommittedBeforePhones ==
    /\ (Returned("add_client") /\ last.result # None) =>
           /\ Len(last.commits) \in {1, 2}
           /\ last.commits[1].client_phone = last.pre.client_phone
           /\ last.result[1] \in ClientIdsOf(last.commits[1].client)
           /\ last.commits[Len(last.commits)] = Tables(client, client_phone)
           /\ KeptPhones > 0 => Len(last.commits) = 2
    /\ Returned("del_client") =>
           /\ Len(last.commits) = 1
           /\ last.commits[1] = Tables(client, client_phone)

C10_Witness ==
    /\ Returned("add_client")
    /\ last.result # None
    /\ KeptPhones = 2
    /\ Len(last.commits) = 2

====
